---- MODULE Spec2Model ----
(***************************************************************************)
(* Model of the ingestion / cache / chunk / index / retrieve pipeline of   *)
(* the RAG demo (rag.py, vectorstore.py, chunking.py, images_ingest.py,    *)
(* email_ingest.py, config.py).                                            *)
(*                                                                         *)
(* Texts are sequences of one-character strings, so that membership of a   *)
(* character, stripping and concatenation are computed as Python computes  *)
(* them.                                                                   *)
(***************************************************************************)
EXTENDS Integers, Sequences, FiniteSets, TLC

VARIABLES
    \* ---- rag.py: the last answer_question request ----
    ragDone,      \* TRUE once a request has returned
    retrieved,    \* docs returned by vectordb.similarity_search for it
    llmReply,     \* resp.content of the generative call (when invoked)
    llmCalls,     \* number of llm.invoke calls made by the request
    answer,       \* result["answer"]
    sources,      \* result["sources"]
    searchCalls,  \* number of similarity_search calls made by the request
    ragFault,     \* the call that raised in the request: "none", "search", "llm"
    ragRaised     \* the request raised instead of returning

ragVars == <<ragDone, retrieved, llmReply, llmCalls, answer, sources,
             searchCalls, ragFault, ragRaised>>

VARIABLES
    \* ---- chunking.py: the last split_documents call ----
    splitDone,    \* TRUE once split_documents has returned
    splitDocs,    \* its argument
    splitChunks   \* its result

chunkVars == <<splitDone, splitDocs, splitChunks>>

VARIABLES
    \* ---- vectorstore.py: the last _make_chunk_ids call ----
    idsDone,      \* TRUE once _make_chunk_ids has returned
    idChunks,     \* its argument
    idIds         \* its result

idVars == <<idsDone, idChunks, idIds>>

VARIABLES
    \* ---- vectorstore.py: the persistent collection and the last build ----
    collection,   \* the Chroma collection: id -> record
    buildCalled,  \* TRUE once build_or_load_chroma has returned
    lastLen,      \* len(chunks) of the last build
    lastDistinct, \* no two of them share (source, chunk_index, content)
    lastReset,    \* reset argument of the last build
    deleteFailed, \* delete_collection raised in the last build
    countFailed,  \* the count probe raised in the last build
    enteredEmpty, \* the collection was empty when the last build was entered
    openedEmpty,  \* ... and when it probed the count, after the reset
    inserted,     \* the last build called add_documents
    reinserted,   \* ... and every id it inserted was already in the collection
    storedAll,    \* every id computed for the chunks of the last build is stored
    changed,      \* the last build returned another record set than it found
    holdsChunks,  \* the records are exactly the chunks of the last build
    rerunStable,  \* the same call again, without fault, would change nothing
    rerunStableAnyFault, \* ... and neither would it with any fault
    addCalls,     \* number of add_documents calls made by the last build call
    addFailed,    \* add_documents raised in the last build call
    buildRaised   \* the last build call raised instead of returning

storeVars == <<collection, buildCalled, lastLen, lastDistinct, lastReset, deleteFailed,
               countFailed, enteredEmpty, openedEmpty, inserted, reinserted,
               storedAll, changed, holdsChunks, rerunStable, rerunStableAnyFault,
               addCalls, addFailed, buildRaised>>

VARIABLES
    \* ---- images_ingest.py: data/images, outputs/image_text, the last run ----
    imgMtime,       \* image file -> st_mtime, 0 when the file does not exist
    imgCache,       \* cache path -> record stored under outputs/image_text
    imgRunDone,     \* TRUE right after a load_images run, until a file changes
    imgUseCache,    \* use_cache argument of the last run
    imgCacheBefore, \* the cache when the last run was entered
    imgComputed,    \* files the last run called describe_image for
    imgDocs,        \* Documents the last run returned
    imgRaised       \* the last run raised instead of returning

imageVars == <<imgMtime, imgCache, imgRunDone, imgUseCache, imgCacheBefore,
               imgComputed, imgDocs, imgRaised>>

VARIABLES
    \* ---- email_ingest.py: data/eml, the email cache, the last run ----
    emlMtime,       \* .eml file -> st_mtime, 0 when the file does not exist
    emlCache,       \* cache path -> record
    emlRunDone,     \* TRUE right after a load_emails run, until a file changes
    emlUseCache,    \* use_cache argument of the last run
    emlCacheBefore, \* the cache when the last run was entered
    emlComputed,    \* files the last run called _extract_text_from_eml for
    emlDocs,        \* Documents the last run returned
    emlRaised       \* the last run raised instead of returning

emailVars == <<emlMtime, emlCache, emlRunDone, emlUseCache, emlCacheBefore, emlComputed,
               emlDocs, emlRaised>>

VARIABLES
    \* ---- ingest.py, pdf_ingest.py, audio_ingest.py: the last loader call ----
    ingDone,        \* a loader has been called
    ingLoader,      \* the name of the loader called
    ingFiles,       \* the files it found, in sorted() order
    ingDocs,        \* Documents it returned
    ingRaised,      \* it raised instead of returning
    transcripts     \* outputs/transcripts: transcript path -> text

ingestVars == <<ingDone, ingLoader, ingFiles, ingDocs, ingRaised, transcripts>>

VARIABLES
    \* ---- rag.py: the last _format_sources call ----
    fmtDone,        \* TRUE once _format_sources has returned
    fmtDocs,        \* its argument
    fmtBlocks       \* the blocks it built, in order

fmtVars == <<fmtDone, fmtDocs, fmtBlocks>>

vars == <<ragVars, chunkVars, idVars, storeVars, imageVars, emailVars,
          ingestVars, fmtVars>>

----------------------------------------------------------------------------
(* Generic helpers on sequences *)

Range(s) == {s[i] : i \in 1..Len(s)}

\* All sequences over S of length 0..n
SeqUpTo(S, n) == UNION {[1..m -> S] : m \in 0..n}

\* All sequences over S of length exactly n without repeated element
InjSeq(S, n) == {s \in [1..n -> S] : \A i, j \in 1..n : i # j => s[i] # s[j]}

\* All sequences over S of length 0..n without repeated element
InjSeqUpTo(S, n) == UNION {InjSeq(S, m) : m \in 0..n}

Min(a, b) == IF a <= b THEN a ELSE b

----------------------------------------------------------------------------
(* Bounds of the model *)

MaxAnswerLen == 3      \* longest free-form text the generative model returns
MaxK == 2              \* largest k of a request
MaxDocs == 3           \* most Documents in one split_documents argument
MaxWindows == 2        \* most windows the text splitter cuts one Document into
MaxIdChunks == 2       \* most chunks in one _make_chunk_ids argument
MaxBuildDocs == 2      \* most Documents ingested for one build
MaxMtime == 2          \* modification times of a file are 1..MaxMtime
MaxPages == 2          \* most pages of one PDF file
MaxHtmlLen == 2        \* pieces of an HTML file
MaxOver == 1           \* chunk contents are up to MaxOver longer than the cap

----------------------------------------------------------------------------
(* rag.py *)

\* The refusal text that rag.py writes three times (lines 17, 65, 96-97)
REFUSAL ==
    <<"I", " ", "d", "o", "n", "'", "t", " ", "k", "n", "o", "w", " ",
      "b", "a", "s", "e", "d", " ", "o", "n", " ", "t", "h", "e", " ",
      "p", "r", "o", "v", "i", "d", "e", "d", " ",
      "d", "o", "c", "u", "m", "e", "n", "t", "s", ".">>

Whitespace == {" ", "\n"}

\* str.lstrip(): drop leading whitespace
RECURSIVE LStrip(_)
LStrip(t) ==
    IF t = <<>> THEN <<>>
    ELSE IF Head(t) \in Whitespace THEN LStrip(Tail(t))
    ELSE t

\* str.rstrip(): drop trailing whitespace
RECURSIVE RStrip(_)
RStrip(t) ==
    IF t = <<>> THEN <<>>
    ELSE IF t[Len(t)] \in Whitespace THEN RStrip(SubSeq(t, 1, Len(t) - 1))
    ELSE t

\* str.strip()
Strip(t) == RStrip(LStrip(t))

\* (resp.content or ""): a reply without content counts as the empty text
ContentOrEmpty(reply) == IF reply.is_none THEN <<>> ELSE reply.content

\* rag.py line 95: has_citation = "[" in answer and "]" in answer
has_citation(text) == "[" \in Range(text) /\ "]" \in Range(text)

\* rag.py lines 91-97: strip the reply, then the safety net
SafetyNet(reply) ==
    LET stripped == Strip(ContentOrEmpty(reply))
    IN  IF stripped # REFUSAL /\ ~has_citation(stripped)
        THEN REFUSAL
        ELSE stripped

\* dict.get(key, default) on a metadata mapping
Get(meta, key, default) == IF key \in DOMAIN meta THEN meta[key] ELSE default

\* The source of a chunk whose metadata names none
UNKNOWN == <<"u", "n", "k", "n", "o", "w", "n">>

\* max_chars_each, the default of _format_sources (line 25)
max_chars_each == 900

\* The truncation mark of line 38
Ellipsis == "\\u2026"

\* The excerpt when the length is tested before the content is stripped
Excerpt_CutsUnstripped(page_content) ==
    IF Len(page_content) > max_chars_each
    THEN RStrip(SubSeq(Strip(page_content), 1, max_chars_each))
             \o <<Ellipsis>>
    ELSE Strip(page_content)

\* rag.py lines 36-38: the excerpt of one chunk
Excerpt(page_content) ==
    LET content == Strip(page_content)
    IN  IF Len(content) > max_chars_each
        THEN RStrip(SubSeq(content, 1, max_chars_each)) \o <<Ellipsis>>
        ELSE content

\* rag.py lines 31-45: the block of the i-th chunk.  The f-string writes
\* the number, the type, the source and the excerpt on lines of their own.
SourceBlock(i, d) ==
    [number |-> i,
     type |-> Get(d.metadata, "type", "n/a"),
     source |-> Get(d.metadata, "source", UNKNOWN),
     content |-> Excerpt(d.page_content)]

\* rag.py lines 25-46: the blocks in the order of the chunks; line 46 joins
\* them with a rule between two blocks
_format_sources(docs) == [i \in 1..Len(docs) |-> SourceBlock(i, docs[i])]

\* n times the character c
Fill(c, n) == [i \in 1..n |-> c]

\* Chunk contents about as long as the cap: a run of letters, followed by
\* nothing, by a blank, by a blank and a letter, or by an ellipsis that the
\* text itself ends with
FormatContents ==
    {Fill("x", n) \o tail :
        n \in (max_chars_each - MaxOver)..(max_chars_each + MaxOver),
        tail \in {<<>>, <<" ">>, <<" ", "y">>, <<Ellipsis>>}}

\* Chunks handed to _format_sources, one of them without text and metadata
FormatDocs ==
    {[page_content |-> t, metadata |-> [source |-> <<"a">>, type |-> "pdf"]] :
        t \in FormatContents}
        \cup {[page_content |-> <<>>, metadata |-> <<>>]}

\* One call _format_sources(docs).  The function keeps nothing between
\* calls, so a behaviour holds one call.
FormatSources ==
    /\ fmtDone = FALSE
    /\ \E docs \in SeqUpTo(FormatDocs, MaxK) :
        /\ fmtDone' = TRUE
        /\ fmtDocs' = docs
        /\ fmtBlocks' = _format_sources(docs)
    /\ UNCHANGED <<ragVars, chunkVars, idVars, storeVars, imageVars, emailVars,
                   ingestVars>>

\* What the two external calls of a request may do: similarity_search
\* (line 62) and llm.invoke (lines 84-89) return or raise
RagFaults == [search_fails : BOOLEAN, llm_fails : BOOLEAN]

\* A request left by the exception of one of its calls: nothing is returned
RaisedBy(fault, llm_calls) ==
    [raised |-> TRUE, fault |-> fault, answer |-> <<>>, sources |-> <<>>,
     search_calls |-> 1, llm_calls |-> llm_calls]

\* A request that returns
Returned(text, docs, llm_calls) ==
    [raised |-> FALSE, fault |-> "none", answer |-> text, sources |-> docs,
     search_calls |-> 1, llm_calls |-> llm_calls]

\* The request without the early return of lines 64-65
answer_question_NoEarlyReturn(docs, reply, faults) ==
    IF faults.search_fails THEN RaisedBy("search", 0)
    ELSE IF faults.llm_fails THEN RaisedBy("llm", 1)
    ELSE Returned(SafetyNet(reply), docs, 1)

\* The request with llm.invoke inside a try block that answers the refusal
answer_question_CatchesLlm(docs, reply, faults) ==
    IF faults.search_fails THEN RaisedBy("search", 0)
    ELSE IF docs = <<>> THEN Returned(REFUSAL, <<>>, 0)
    ELSE IF faults.llm_fails
    THEN [Returned(REFUSAL, docs, 1) EXCEPT !.fault = "llm"]
    ELSE Returned(SafetyNet(reply), docs, 1)

\* rag.py lines 62-99: the result of one request, given what retrieval and
\* the generative call hand back.  Neither call stands in a try block, so
\* what it raises leaves the function.  search_calls and llm_calls count
\* the calls made.
answer_question(docs, reply, faults) ==
    IF faults.search_fails THEN RaisedBy("search", 0)
    ELSE IF docs = <<>> THEN Returned(REFUSAL, <<>>, 0)
    ELSE IF faults.llm_fails THEN RaisedBy("llm", 1)
    ELSE Returned(SafetyNet(reply), docs, 1)

\* vectordb.similarity_search(query, k=k), rag.py line 62: the k nearest
\* records of the index, fewer when the index holds fewer.  The ranking is
\* the embedding model's, so any order is possible.
similarity_search(index, k) == InjSeq(index, Min(k, Cardinality(index)))

\* Sample index records (chunks as Chroma hands them back)
RagDoc1 == [page_content |-> <<"R", "o", "o", "m">>,
            metadata |-> [source |-> <<"a">>, type |-> "txt", chunk_index |-> 1]]
RagDoc2 == [page_content |-> <<"f", "l", "o", "o", "r">>,
            metadata |-> [source |-> <<"a">>, type |-> "txt", chunk_index |-> 2]]
RagDoc3 == [page_content |-> <<"m", "a", "p">>,
            metadata |-> [source |-> <<"b">>, type |-> "image", chunk_index |-> 1]]
RagDocs == {RagDoc1, RagDoc2, RagDoc3}

\* Characters the generative model may put in a free-form text
AnswerAlphabet == {"[", "]", "1", "3", "a", " "}

\* Texts the generative model may return: every short text, the refusal
\* text, and the refusal text with surrounding whitespace
LlmTexts ==
    SeqUpTo(AnswerAlphabet, MaxAnswerLen)
        \cup {REFUSAL, <<" ">> \o REFUSAL \o <<"\n">>}

LlmReplies ==
    {[is_none |-> FALSE, content |-> t] : t \in LlmTexts}
        \cup {[is_none |-> TRUE, content |-> <<>>]}

NoReply == [is_none |-> TRUE, content |-> <<>>]

\* One request answer_question(query, vectordb=..., k=k).  The function
\* keeps nothing between requests, so a behaviour holds one request.
AnswerQuestion ==
    /\ ragDone = FALSE
    /\ ragRaised = FALSE
    /\ \E index \in SUBSET RagDocs, k \in 1..MaxK, reply \in LlmReplies,
          faults \in RagFaults :
        \E docs \in similarity_search(index, k) :
          LET res == answer_question(docs, reply, faults)
          IN  /\ ragDone' = ~res.raised
              /\ retrieved' = IF res.fault = "search" THEN <<>> ELSE docs
              /\ llmReply' = IF res.llm_calls = 0 \/ res.fault = "llm"
                              THEN NoReply ELSE reply
              /\ llmCalls' = res.llm_calls
              /\ answer' = res.answer
              /\ sources' = res.sources
              /\ searchCalls' = res.search_calls
              /\ ragFault' = res.fault
              /\ ragRaised' = res.raised
    /\ UNCHANGED <<chunkVars, idVars, storeVars, imageVars, emailVars, ingestVars, fmtVars>>

----------------------------------------------------------------------------
(* chunking.py *)

\* splitter.split_documents(docs), chunking.py lines 16-22.  The window
\* boundaries are the text splitter's; a Document's page_content is given
\* here as the sequence of windows the splitter cuts it into.  Each window
\* becomes one chunk that carries a copy of its Document's metadata.
RECURSIVE splitter_split_documents(_)
splitter_split_documents(docs) ==
    IF docs = <<>> THEN <<>>
    ELSE LET d == Head(docs)
         IN  [i \in 1..Len(d.page_content) |->
                 [page_content |-> d.page_content[i], metadata |-> d.metadata]]
             \o splitter_split_documents(Tail(docs))

\* The numbering with a counter that is dropped whenever the source changes
RECURSIVE NumberChunks_RestartOnChange(_, _)
NumberChunks_RestartOnChange(chunks, counters) ==
    IF chunks = <<>> THEN <<>>
    ELSE LET d == Head(chunks)
             src == Get(d.metadata, "source", UNKNOWN)
             n == Get(counters, src, 0) + 1
             numbered == [page_content |-> d.page_content,
                          metadata |-> [k \in DOMAIN d.metadata \cup {"chunk_index"} |->
                              IF k = "chunk_index" THEN n ELSE d.metadata[k]]]
         IN  <<numbered>>
                 \o NumberChunks_RestartOnChange(Tail(chunks), [s \in {src} |-> n])

\* chunking.py lines 25-29: the loop that numbers the chunks, with the
\* counters dict as a function source -> count
RECURSIVE NumberChunks(_, _)
NumberChunks(chunks, counters) ==
    IF chunks = <<>> THEN <<>>
    ELSE LET d == Head(chunks)
             src == Get(d.metadata, "source", UNKNOWN)
             n == Get(counters, src, 0) + 1
             counted == [s \in DOMAIN counters \cup {src} |->
                            IF s = src THEN n ELSE counters[s]]
             numbered == [page_content |-> d.page_content,
                          metadata |-> [k \in DOMAIN d.metadata \cup {"chunk_index"} |->
                              IF k = "chunk_index" THEN n ELSE d.metadata[k]]]
         IN  <<numbered>> \o NumberChunks(Tail(chunks), counted)

\* chunking.py lines 11-31
split_documents(docs) == NumberChunks(splitter_split_documents(docs), <<>>)

----------------------------------------------------------------------------
(* vectorstore.py *)

\* str(n) for n >= 0
DigitChar(n) ==
    CASE n = 0 -> "0" [] n = 1 -> "1" [] n = 2 -> "2" [] n = 3 -> "3"
      [] n = 4 -> "4" [] n = 5 -> "5" [] n = 6 -> "6" [] n = 7 -> "7"
      [] n = 8 -> "8" [] n = 9 -> "9"

RECURSIVE IntToChars(_)
IntToChars(n) ==
    IF n < 10 THEN <<DigitChar(n)>>
    ELSE IntToChars(n \div 10) \o <<DigitChar(n % 10)>>

\* The two separators of the f-string of vectorstore.py line 41
SepChunk == <<":", ":", "c", "h", "u", "n", "k", "=">>
SepContent == <<":", ":", ":">>

\* A lone surrogate code point, the one kind of character that
\* str.encode("utf-8", errors="ignore") drops
LoneSurrogate == "\\ud800"

\* raw.encode("utf-8", errors="ignore"), vectorstore.py line 41
Utf8EncodeIgnore(t) == SelectSeq(t, LAMBDA c : c # LoneSurrogate)

\* hashlib.sha256(raw).hexdigest(), taken as injective: the digest is
\* represented by the bytes it was computed from
Sha256Hex(raw) == <<"sha256", raw>>

\* The id when the type is hashed along with the triple
ChunkId_HashesType(d) ==
    Sha256Hex(<<d.metadata.type>> \o d.metadata.source \o SepChunk
                  \o IntToChars(d.metadata.chunk_index) \o SepContent
                  \o d.page_content)

\* vectorstore.py lines 38-42: the id of one chunk
ChunkId(d) ==
    LET src == Get(d.metadata, "source", UNKNOWN)
        cix == IF "chunk_index" \in DOMAIN d.metadata
               THEN IntToChars(d.metadata.chunk_index)
               ELSE <<"0">>
        raw == src \o SepChunk \o cix \o SepContent \o d.page_content
    IN  Sha256Hex(Utf8EncodeIgnore(raw))

\* The ids when the position in the list is hashed along with the triple
_make_chunk_ids_ByPosition(chunks) ==
    [i \in 1..Len(chunks) |-> <<i, ChunkId(chunks[i])>>]

\* vectorstore.py lines 31-43
_make_chunk_ids(chunks) == [i \in 1..Len(chunks) |-> ChunkId(chunks[i])]

\* The count probe without its try/except: the count of the collection
\* whether or not the probe raised
_safe_collection_count_Unguarded(coll, count_fails) == Cardinality(DOMAIN coll)

\* vectordb._collection.count() guarded by try/except, lines 23-28
_safe_collection_count(coll, count_fails) ==
    IF count_fails THEN 0 ELSE Cardinality(DOMAIN coll)

\* vectordb.add_documents(chunks, ids=ids), line 83: records are stored
\* under their ids one after the other, a record under an id that is
\* already present replaces the one stored there
RECURSIVE add_documents(_, _, _)
add_documents(coll, chunks, ids) ==
    IF chunks = <<>> THEN coll
    ELSE LET put == [x \in DOMAIN coll \cup {Head(ids)} |->
                        IF x = Head(ids) THEN Head(chunks) ELSE coll[x]]
         IN  add_documents(put, Tail(chunks), Tail(ids))

\* vectorstore.py lines 66-76: delete_collection inside try/except, then
\* the handle is opened again.  A failed deletion leaves the records.
ResetCollection(coll, reset, delete_fails) ==
    IF reset /\ ~delete_fails THEN <<>> ELSE coll

\* The build without the "only add if empty" test of line 81
build_or_load_chroma_NoSkip(coll, chunks, reset, delete_fails, count_fails, add_fails) ==
    LET opened == ResetCollection(coll, reset, delete_fails)
        inserts == chunks # <<>>
    IN  [before_insert |-> opened,
         inserted |-> inserts /\ ~add_fails,
         add_calls |-> IF inserts THEN 1 ELSE 0,
         raised |-> inserts /\ add_fails,
         collection |-> IF inserts /\ ~add_fails
                        THEN add_documents(opened, chunks, _make_chunk_ids(chunks))
                        ELSE opened]

\* vectorstore.py lines 46-85.  add_documents (line 83) embeds the texts of
\* all chunks before it writes a record and stands in no try block: when
\* the embedding or the write raises, the exception leaves the function
\* and the collection is as the reset left it.
build_or_load_chroma(coll, chunks, reset, delete_fails, count_fails, add_fails) ==
    LET opened == ResetCollection(coll, reset, delete_fails)
        existing_count == _safe_collection_count(opened, count_fails)
        inserts == chunks # <<>> /\ existing_count = 0
    IN  [before_insert |-> opened,
         inserted |-> inserts /\ ~add_fails,
         add_calls |-> IF inserts THEN 1 ELSE 0,
         raised |-> inserts /\ add_fails,
         collection |-> IF inserts /\ ~add_fails
                        THEN add_documents(opened, chunks, _make_chunk_ids(chunks))
                        ELSE opened]

----------------------------------------------------------------------------
(* Inputs of the chunker and of the index store *)

\* Sources are relative paths; SrcTricky is a path whose name holds the
\* text of the id separators
SrcA == <<"a">>
SrcB == <<"b">>
SrcTricky == SrcA \o SepChunk \o <<"1">> \o SepContent
Sources == {SrcA, SrcTricky}

\* Chunk contents; TxtTricky starts with the text of the id separators
TxtC == <<"c">>
TxtTricky == SepChunk \o <<"1">> \o SepContent \o TxtC
Contents == {TxtC, TxtTricky}

\* Metadata the loaders attach: a text file, and two pages of one PDF
LoaderMetadata ==
    {[source |-> SrcB, type |-> "txt"],
     [source |-> SrcA, type |-> "pdf", page |-> 1],
     [source |-> SrcA, type |-> "pdf", page |-> 2]}

\* Documents handed to split_documents: a Document is cut into 0..MaxWindows
\* windows
SplitInputDocs ==
    [page_content : SeqUpTo({TxtC}, MaxWindows), metadata : LoaderMetadata]

\* One call split_documents(docs).  The function keeps nothing between
\* calls, so a behaviour holds one call.
SplitDocuments ==
    /\ splitDone = FALSE
    /\ \E docs \in SeqUpTo(SplitInputDocs, MaxDocs) :
        /\ splitDone' = TRUE
        /\ splitDocs' = docs
        /\ splitChunks' = split_documents(docs)
    /\ UNCHANGED <<ragVars, idVars, storeVars, imageVars, emailVars, ingestVars, fmtVars>>

\* Chunks handed to _make_chunk_ids
IdInputTriples ==
    {<<SrcA, 1, TxtC>>, <<SrcA, 1, TxtTricky>>, <<SrcTricky, 1, TxtC>>,
     <<SrcA, 2, TxtC>>, <<SrcA, 2, TxtTricky>>, <<SrcTricky, 2, TxtC>>}

IdInputChunks ==
    {[page_content |-> t[3],
      metadata |-> [source |-> t[1], type |-> ty, chunk_index |-> t[2]]] :
        t \in IdInputTriples, ty \in {"txt", "pdf"}}

\* One call _make_chunk_ids(chunks)
MakeChunkIds ==
    /\ \E chunks \in SeqUpTo(IdInputChunks, MaxIdChunks) :
        /\ idsDone' = TRUE
        /\ idChunks' = chunks
        /\ idIds' = _make_chunk_ids(chunks)
    /\ UNCHANGED <<ragVars, chunkVars, storeVars, imageVars, emailVars, ingestVars, fmtVars>>

\* Documents ingested for a build, one window each: a file, the same file
\* with its content changed, and a file whose name holds the separators
BuildInputDocs ==
    {[page_content |-> <<TxtC>>, metadata |-> [source |-> SrcA, type |-> "txt"]],
     [page_content |-> <<TxtTricky>>, metadata |-> [source |-> SrcA, type |-> "txt"]],
     [page_content |-> <<TxtC>>, metadata |-> [source |-> SrcTricky, type |-> "txt"]]}

\* The chunk lists a build is called with: chunking.split_documents(all_docs),
\* vectorstore.py line 137.  A run ingests a Document once.
BuildChunkLists ==
    {split_documents(docs) : docs \in InjSeqUpTo(BuildInputDocs, MaxBuildDocs)}

\* What the environment may do to one build: whether delete_collection
\* raises (only tried when reset), whether the count probe raises and
\* whether add_documents raises
BuildFaults(reset) ==
    [delete_fails : IF reset THEN BOOLEAN ELSE {FALSE}, count_fails : BOOLEAN,
     add_fails : BOOLEAN]

\* The (source, chunk_index, content) of a chunk or record
Triple(d) == <<d.metadata.source, d.metadata.chunk_index, d.page_content>>

\* No two chunks of the list share their triple
DistinctTriples(chunks) ==
    \A i, j \in 1..Len(chunks) :
        i # j => Triple(chunks[i]) # Triple(chunks[j])

\* The collection holds one record per chunk of the list, under its id
HoldsExactly(coll, chunks) ==
    LET ids == _make_chunk_ids(chunks)
    IN  /\ DOMAIN coll = Range(ids)
        /\ Cardinality(DOMAIN coll) = Len(chunks)
        /\ \A i \in 1..Len(chunks) : coll[ids[i]] = chunks[i]

\* The collection a call returns
Rebuilt(coll, chunks, reset, faults) ==
    build_or_load_chroma(coll, chunks, reset, faults.delete_fails,
                         faults.count_fails, faults.add_fails).collection

NoFault == [delete_fails |-> FALSE, count_fails |-> FALSE, add_fails |-> FALSE]

\* One call build_or_load_chroma(chunks, reset=reset), vectorstore.py line 149
BuildWith(chunks, reset, faults) ==
    LET res == build_or_load_chroma(collection, chunks, reset,
                                    faults.delete_fails, faults.count_fails,
                                    faults.add_fails)
    IN  /\ collection' = res.collection
        /\ buildRaised' = res.raised
        /\ addCalls' = res.add_calls
        /\ addFailed' = (faults.add_fails /\ res.add_calls > 0)
        /\ lastLen' = Len(chunks)
        /\ lastDistinct' = DistinctTriples(chunks)
        /\ lastReset' = reset
        /\ deleteFailed' = faults.delete_fails
        /\ countFailed' = faults.count_fails
        /\ IF res.raised
           THEN \* nothing was returned: what is recorded of a returned
                \* build is dropped
                /\ buildCalled' = FALSE
                /\ enteredEmpty' = TRUE
                /\ openedEmpty' = TRUE
                /\ inserted' = FALSE
                /\ reinserted' = FALSE
                /\ storedAll' = TRUE
                /\ changed' = FALSE
                /\ holdsChunks' = TRUE
                /\ rerunStable' = TRUE
                /\ rerunStableAnyFault' = TRUE
           ELSE /\ buildCalled' = TRUE
                /\ enteredEmpty' = (collection = <<>>)
                /\ openedEmpty' = (res.before_insert = <<>>)
                /\ inserted' = res.inserted
                /\ reinserted' = (res.inserted
                                    /\ Range(_make_chunk_ids(chunks))
                                           \subseteq DOMAIN res.before_insert)
                /\ storedAll' = (Range(_make_chunk_ids(chunks))
                                     \subseteq DOMAIN res.collection)
                /\ changed' = (res.collection # collection)
                /\ holdsChunks' = HoldsExactly(res.collection, chunks)
                /\ rerunStable' =
                       (Rebuilt(res.collection, chunks, reset, NoFault)
                            = res.collection)
                /\ rerunStableAnyFault' =
                       \A again \in {f \in BuildFaults(reset) : ~f.add_fails} :
                           Rebuilt(res.collection, chunks, reset, again)
                               = res.collection
        /\ UNCHANGED <<ragVars, chunkVars, idVars, imageVars, emailVars, ingestVars, fmtVars>>

Build ==
    \E chunks \in BuildChunkLists, reset \in BOOLEAN :
        \E faults \in BuildFaults(reset) : BuildWith(chunks, reset, faults)

----------------------------------------------------------------------------
(* config.py *)

\* The module attributes config.py defines (lines 11-71)
ConfigNames ==
    {"OPENAI_API_KEY", "BASE_DIR", "DATA_DIR", "OUTPUTS_DIR", "CHROMA_DIR",
     "PDF_DIR", "TXT_DIR", "HTML_DIR", "IMAGES_DIR", "AUDIO_DIR", "EML_DIR",
     "TRANSCRIPTS_DIR", "IMAGE_TEXT_DIR", "PDF_VISION_DIR",
     "CHAT_MODEL", "EMBEDDING_MODEL", "TRANSCRIPTION_MODEL", "VISION_MODEL",
     "CHUNK_SIZE", "CHUNK_OVERLAP", "TOP_K", "MIN_TEXT_CHARS"}

\* Reading config.<name> raises AttributeError for any other name
ConfigHas(name) == name \in ConfigNames

----------------------------------------------------------------------------
(* images_ingest.py *)

\* Image files under data/images, in sorted() order: one stem in two
\* directories
ImgAX == [dir |-> "a", stem |-> "x", ext |-> ".png"]
ImgBX == [dir |-> "b", stem |-> "x", ext |-> ".png"]
ImageOrder == <<ImgAX, ImgBX>>
ImageFiles == Range(ImageOrder)

\* hashlib.sha1(rel).hexdigest()[:12], lines 37-38: the 48-bit prefix is
\* taken as injective on the paths of the model
Sha1Prefix(rel) == <<"sha1", rel.dir, rel.stem, rel.ext>>

\* images_ingest.py lines 32-39
_cache_path_for(img_path) == <<img_path.stem, Sha1Prefix(img_path)>>

\* A record file holds text that is not JSON, JSON that is not an object,
\* or a JSON object with some of the fields "mtime" (the "_image_mtime" or
\* "_eml_mtime" entry) and "payload" (the other entries).  json.loads
\* raises on the first and .get raises on the second.
IsJsonObject(cached) == "text" \notin DOMAIN cached

\* images_ingest.py lines 42-50: the record exists, parses to an object,
\* and its "_image_mtime" equals the file's st_mtime; every exception is
\* caught and answers False
_is_cache_valid(cache, cache_path, mtime) ==
    /\ cache_path \in DOMAIN cache
    /\ IsJsonObject(cache[cache_path])
    /\ "mtime" \in DOMAIN cache[cache_path]
    /\ cache[cache_path].mtime = mtime

\* What the vision model may answer: a JSON object, text that is not JSON,
\* JSON that is not an object (a list, a string, a number)
VisionReplies == {"object", "not_json", "not_object"}

\* images_ingest.py lines 99-114.  json.loads succeeds on JSON of any type;
\* the item assignment of line 113 raises TypeError unless data is a dict.
describe_image(reply, mtime) ==
    CASE reply = "object" ->
            [raised |-> FALSE, data |-> [mtime |-> mtime, payload |-> "parsed"]]
      [] reply = "not_json" ->
            [raised |-> FALSE, data |-> [mtime |-> mtime, payload |-> "fallback"]]
      [] reply = "not_object" ->
            [raised |-> TRUE, data |-> [mtime |-> mtime, payload |-> "none"]]

\* images_ingest.py lines 192-202: image_dict_to_document_text reads every
\* entry with data.get(key, default), so missing entries give an empty text
ImageDocument(img_path, data) ==
    [page_content |-> Get(data, "payload", "empty"),
     metadata |-> [source |-> img_path, type |-> "image"]]

\* images_ingest.py lines 183-204: the loop over the sorted files.  run is
\* what the loop has done so far.
RECURSIVE LoadImagesLoop(_, _, _, _, _)
LoadImagesLoop(files, mtime, use_cache, replies, run) ==
    IF files = <<>> \/ run.raised THEN run
    ELSE LET img_path == Head(files)
             cache_path == _cache_path_for(img_path)
             hit == use_cache
                      /\ _is_cache_valid(run.cache, cache_path, mtime[img_path])
             described == describe_image(replies[img_path], mtime[img_path])
             data == IF hit THEN run.cache[cache_path] ELSE described.data
             written == [p \in DOMAIN run.cache \cup {cache_path} |->
                            IF p = cache_path THEN described.data
                            ELSE run.cache[p]]
             next ==
                IF hit
                THEN [run EXCEPT !.docs = @ \o <<ImageDocument(img_path, data)>>]
                ELSE IF described.raised
                THEN [run EXCEPT !.computed = @ \cup {img_path},
                                 !.raised = TRUE]
                ELSE [run EXCEPT !.computed = @ \cup {img_path},
                                 !.cache = written,
                                 !.docs = @ \o <<ImageDocument(img_path, data)>>]
         IN  LoadImagesLoop(Tail(files), mtime, use_cache, replies, next)

\* images_ingest.py lines 175-204
load_images(mtime, cache, use_cache, replies) ==
    LoadImagesLoop(SelectSeq(ImageOrder, LAMBDA f : mtime[f] # 0),
                   mtime, use_cache, replies,
                   [cache |-> cache, docs |-> <<>>, computed |-> {},
                    raised |-> FALSE])

\* One run load_images(use_cache=use_cache)
LoadImages ==
    /\ \E use_cache \in BOOLEAN, replies \in [ImageFiles -> VisionReplies] :
        LET run == load_images(imgMtime, imgCache, use_cache, replies)
        IN  /\ imgCache' = run.cache
            /\ imgRunDone' = TRUE
            /\ imgUseCache' = use_cache
            /\ imgCacheBefore' = imgCache
            /\ imgComputed' = run.computed
            /\ imgDocs' = IF run.raised THEN <<>> ELSE run.docs
            /\ imgRaised' = run.raised
    /\ UNCHANGED imgMtime
    /\ UNCHANGED <<ragVars, chunkVars, idVars, storeVars, emailVars, ingestVars, fmtVars>>

\* The environment creates or modifies an image file.  What was recorded
\* of the last run is dropped.
TouchImage ==
    /\ \E f \in ImageFiles, m \in 1..MaxMtime :
        /\ m # imgMtime[f]
        /\ imgMtime' = [imgMtime EXCEPT ![f] = m]
    /\ imgRunDone' = FALSE
    /\ imgUseCache' = TRUE
    /\ imgCacheBefore' = <<>>
    /\ imgComputed' = {}
    /\ imgDocs' = <<>>
    /\ imgRaised' = FALSE
    /\ UNCHANGED imgCache
    /\ UNCHANGED <<ragVars, chunkVars, idVars, storeVars, emailVars, ingestVars, fmtVars>>

\* What a record file may hold when something other than the loader wrote
\* it last (an interrupted write, an edit, another version of the program):
\* no JSON, JSON that is no object, an object without the modification
\* time, an object with the file's modification time and nothing else
ForeignRecords(mtime, payload) ==
    {[text |-> "not_json"], [text |-> "not_object"],
     [payload |-> payload], [mtime |-> mtime]}

\* The record file of an image is written from outside the loader
WriteImageRecord ==
    /\ \E f \in ImageFiles :
        /\ imgMtime[f] # 0
        /\ \E rec \in ForeignRecords(imgMtime[f], "parsed") :
            LET cache_path == _cache_path_for(f)
            IN  imgCache' = [p \in DOMAIN imgCache \cup {cache_path} |->
                                IF p = cache_path THEN rec ELSE imgCache[p]]
    /\ imgRunDone' = FALSE
    /\ imgUseCache' = TRUE
    /\ imgCacheBefore' = <<>>
    /\ imgComputed' = {}
    /\ imgDocs' = <<>>
    /\ imgRaised' = FALSE
    /\ UNCHANGED imgMtime
    /\ UNCHANGED <<ragVars, chunkVars, idVars, storeVars, emailVars, ingestVars, fmtVars>>

----------------------------------------------------------------------------
(* email_ingest.py *)

\* .eml files under data/eml, in sorted() order: one stem in two directories
EmlAM == [dir |-> "a", stem |-> "m", ext |-> ".eml"]
EmlBM == [dir |-> "b", stem |-> "m", ext |-> ".eml"]
EmlOrder == <<EmlAM, EmlBM>>
EmlFiles == Range(EmlOrder)

\* outputs/email_text/<stem>.json (line 35): the email cache is keyed by the
\* stem of the file
EmlCachePath(f) == <<"EMAIL_TEXT_DIR", f.stem>>

\* email_ingest.py lines 34-36: config.EMAIL_TEXT_DIR / f"{stem}.json".
\* The attribute is read first; reading it raises when config lacks it.
_cache_path_for_eml(eml_path) ==
    IF ConfigHas("EMAIL_TEXT_DIR")
    THEN [raised |-> FALSE, path |-> EmlCachePath(eml_path)]
    ELSE [raised |-> TRUE, path |-> <<>>]

\* email_ingest.py lines 39-46
_is_cache_valid_eml(cache, cache_path, mtime) ==
    /\ cache_path \in DOMAIN cache
    /\ IsJsonObject(cache[cache_path])
    /\ "mtime" \in DOMAIN cache[cache_path]
    /\ cache[cache_path].mtime = mtime

\* email_ingest.py lines 49-110: the text and meta parsed from the bytes of
\* the file, which are a function of the file and of its version
_extract_text_from_eml(eml_path, mtime) ==
    <<"eml", eml_path.dir, eml_path.stem, mtime>>

\* email_ingest.py lines 136-142; the meta of _extract_text_from_eml
\* (subject, date, from, to) is part of the payload
EmailDocument(eml_path, payload) ==
    [page_content |-> payload,
     metadata |-> [source |-> eml_path, type |-> "email"]]

\* email_ingest.py lines 120-142: the loop over the sorted files.  On a hit
\* cached["content_text"] and cached["meta"] (lines 125-126) raise KeyError
\* when the record lacks them.
RECURSIVE LoadEmailsLoop(_, _, _, _)
LoadEmailsLoop(files, mtime, use_cache, run) ==
    IF files = <<>> \/ run.raised THEN run
    ELSE LET eml_path == Head(files)
             located == _cache_path_for_eml(eml_path)
             cache_path == located.path
             hit == use_cache
                      /\ _is_cache_valid_eml(run.cache, cache_path, mtime[eml_path])
             fresh == _extract_text_from_eml(eml_path, mtime[eml_path])
             written == [p \in DOMAIN run.cache \cup {cache_path} |->
                            IF p = cache_path
                            THEN [mtime |-> mtime[eml_path], payload |-> fresh]
                            ELSE run.cache[p]]
             next ==
                IF located.raised
                THEN [run EXCEPT !.raised = TRUE]
                ELSE IF hit /\ "payload" \notin DOMAIN run.cache[cache_path]
                THEN [run EXCEPT !.raised = TRUE]
                ELSE IF hit
                THEN [run EXCEPT !.docs = @ \o
                        <<EmailDocument(eml_path, run.cache[cache_path].payload)>>]
                ELSE [run EXCEPT !.computed = @ \cup {eml_path},
                                 !.cache = written,
                                 !.docs = @ \o <<EmailDocument(eml_path, fresh)>>]
         IN  LoadEmailsLoop(Tail(files), mtime, use_cache, next)

\* email_ingest.py lines 113-144
load_emails(mtime, cache, use_cache) ==
    LoadEmailsLoop(SelectSeq(EmlOrder, LAMBDA f : mtime[f] # 0),
                   mtime, use_cache,
                   [cache |-> cache, docs |-> <<>>, computed |-> {},
                    raised |-> FALSE])

\* One run load_emails(use_cache=use_cache)
LoadEmails ==
    /\ \E use_cache \in BOOLEAN :
        LET run == load_emails(emlMtime, emlCache, use_cache)
        IN  /\ emlCache' = run.cache
            /\ emlRunDone' = TRUE
            /\ emlUseCache' = use_cache
            /\ emlCacheBefore' = emlCache
            /\ emlComputed' = run.computed
            /\ emlDocs' = IF run.raised THEN <<>> ELSE run.docs
            /\ emlRaised' = run.raised
    /\ UNCHANGED emlMtime
    /\ UNCHANGED <<ragVars, chunkVars, idVars, storeVars, imageVars, ingestVars, fmtVars>>

\* The environment creates or modifies an .eml file.  What was recorded
\* of the last run is dropped.
TouchEml ==
    /\ \E f \in EmlFiles, m \in 1..MaxMtime :
        /\ m # emlMtime[f]
        /\ emlMtime' = [emlMtime EXCEPT ![f] = m]
    /\ emlRunDone' = FALSE
    /\ emlUseCache' = TRUE
    /\ emlCacheBefore' = <<>>
    /\ emlComputed' = {}
    /\ emlDocs' = <<>>
    /\ emlRaised' = FALSE
    /\ UNCHANGED emlCache
    /\ UNCHANGED <<ragVars, chunkVars, idVars, storeVars, imageVars, ingestVars, fmtVars>>

\* The record file of an email is written from outside the loader
WriteEmlRecord ==
    /\ \E f \in EmlFiles :
        /\ emlMtime[f] # 0
        /\ \E rec \in ForeignRecords(emlMtime[f],
                                     _extract_text_from_eml(f, emlMtime[f])) :
            LET cache_path == EmlCachePath(f)
            IN  emlCache' = [p \in DOMAIN emlCache \cup {cache_path} |->
                                IF p = cache_path THEN rec ELSE emlCache[p]]
    /\ emlRunDone' = FALSE
    /\ emlUseCache' = TRUE
    /\ emlCacheBefore' = <<>>
    /\ emlComputed' = {}
    /\ emlDocs' = <<>>
    /\ emlRaised' = FALSE
    /\ UNCHANGED emlMtime
    /\ UNCHANGED <<ragVars, chunkVars, idVars, storeVars, imageVars, ingestVars, fmtVars>>

----------------------------------------------------------------------------
(* pdf_ingest.py *)

\* config.MIN_TEXT_CHARS
MIN_TEXT_CHARS == 200

\* len(text) of a page after extract_text() and strip(): nothing, one
\* character short of the minimum, the minimum
PageLengths == {0, MIN_TEXT_CHARS - 1, MIN_TEXT_CHARS}

\* The .pdf files under data/pdf in sorted() order.  PdfReader opens a
\* file or raises (a damaged or encrypted file); an opened file has pages.
PdfOrder == <<"p.pdf", "q.pdf">>
PdfPaths == Range(PdfOrder)
PdfContents ==
    [readable : {FALSE}, pages : {<<>>}]
        \cup [readable : {TRUE}, pages : SeqUpTo(PageLengths, MaxPages)]

\* Document(...) of lines 39-48
PdfDocument(rel, page_index) ==
    [page_content |-> <<TxtC>>,
     metadata |-> [source |-> rel, type |-> "pdf", page |-> page_index]]

\* pdf_ingest.py lines 29-48: the pages of one opened file, numbered from 1
RECURSIVE PdfPages(_, _, _)
PdfPages(rel, pages, page_index) ==
    IF page_index > Len(pages) THEN <<>>
    ELSE (IF pages[page_index] < MIN_TEXT_CHARS THEN <<>>
          ELSE <<PdfDocument(rel, page_index)>>)
         \o PdfPages(rel, pages, page_index + 1)

\* pdf_ingest.py lines 16-50.  PdfReader(str(pdf_path)) at line 26 stands in
\* no try block: what it raises leaves the function.
RECURSIVE load_pdfs_text_only(_, _)
load_pdfs_text_only(pdf_files, run) ==
    IF pdf_files = <<>> \/ run.raised THEN run
    ELSE LET pdf == Head(pdf_files)
             next == IF ~pdf.content.readable
                     THEN [run EXCEPT !.raised = TRUE]
                     ELSE [run EXCEPT !.docs =
                              @ \o PdfPages(pdf.path, pdf.content.pages, 1)]
         IN  load_pdfs_text_only(Tail(pdf_files), next)

\* What data/pdf may hold: each path absent or with some content
PdfDirectories ==
    {SelectSeq([i \in 1..Len(PdfOrder) |->
                    [path |-> PdfOrder[i], present |-> pr[PdfOrder[i]],
                     content |-> c[PdfOrder[i]]]],
               LAMBDA f : f.present) :
        pr \in [PdfPaths -> BOOLEAN], c \in [PdfPaths -> PdfContents]}

\* One call load_pdfs_text_only()
LoadPdfs ==
    /\ ingDone = FALSE
    /\ \E pdf_files \in PdfDirectories :
        LET run == load_pdfs_text_only(pdf_files,
                                       [docs |-> <<>>, raised |-> FALSE])
        IN  /\ ingDone' = TRUE
            /\ ingLoader' = "load_pdfs_text_only"
            /\ ingFiles' = pdf_files
            /\ ingDocs' = IF run.raised THEN <<>> ELSE run.docs
            /\ ingRaised' = run.raised
    /\ UNCHANGED <<ragVars, chunkVars, idVars, storeVars, imageVars, emailVars, fmtVars,
                   transcripts>>

----------------------------------------------------------------------------
(* ingest.py *)

\* Texts _read_text_file returns (lines 16-34): empty, blank, and a text
\* with blank margins
FileTexts == {<<>>, <<" ">>, <<"c">>, <<" ", "c", " ">>}

\* ingest.py lines 45-55; no loader passes extra_meta
_make_doc(text, source, doc_type) ==
    [page_content |-> text,
     metadata |-> [source |-> source, type |-> doc_type]]

\* ingest.py lines 61-65
load_txt(path, raw) ==
    LET text == Strip(raw)
    IN  IF text = <<>> THEN <<>> ELSE <<_make_doc(text, path, "txt")>>

\* An HTML file as a sequence of pieces: a block html_to_text removes
\* (script, style, nav, ...), a blank, a visible character
Removed == "<script>"
HtmlPieces == {Removed, " ", "c"}
HtmlTexts == SeqUpTo(HtmlPieces, MaxHtmlLen)

\* ingest.py lines 71-84: the removed blocks are dropped, the text that is
\* left is trimmed
html_to_text(html) == Strip(SelectSeq(html, LAMBDA piece : piece # Removed))

\* ingest.py lines 87-92
load_html(path, html) ==
    LET text == html_to_text(html)
    IN  IF text = <<>> THEN <<>> ELSE <<_make_doc(text, path, "html")>>

\* data/txt and data/html in sorted() order
TxtOrder == <<"a.txt", "b.txt">>
HtmlOrder == <<"a.html">>

\* What a directory may hold: each path of order absent or with one of texts
Directories(order, texts) ==
    {SelectSeq([i \in 1..Len(order) |->
                    [path |-> order[i], present |-> pr[order[i]],
                     content |-> c[order[i]]]],
               LAMBDA f : f.present) :
        pr \in [Range(order) -> BOOLEAN], c \in [Range(order) -> texts]}

\* The loop of lines 102-103 and of lines 107-108: load applied to each file
RECURSIVE LoadEach(_, _, _)
LoadEach(load_txt_files, load_html_files, files) ==
    IF files = <<>> THEN <<>>
    ELSE LET f == Head(files)
         IN  (IF load_txt_files THEN load_txt(f.path, f.content) ELSE <<>>)
             \o (IF load_html_files THEN load_html(f.path, f.content) ELSE <<>>)
             \o LoadEach(load_txt_files, load_html_files, Tail(files))

\* ingest.py lines 98-110
ingest_all_text_only(txt_files, html_files) ==
    LoadEach(TRUE, FALSE, txt_files) \o LoadEach(FALSE, TRUE, html_files)

\* One call ingest_all_text_only()
IngestAllTextOnly ==
    /\ ingDone = FALSE
    /\ \E txt_files \in Directories(TxtOrder, FileTexts),
          html_files \in Directories(HtmlOrder, HtmlTexts) :
        /\ ingDone' = TRUE
        /\ ingLoader' = "ingest_all_text_only"
        /\ ingFiles' = txt_files \o html_files
        /\ ingDocs' = ingest_all_text_only(txt_files, html_files)
        /\ ingRaised' = FALSE
    /\ UNCHANGED <<ragVars, chunkVars, idVars, storeVars, imageVars, emailVars, fmtVars,
                   transcripts>>

----------------------------------------------------------------------------
(* audio_ingest.py *)

\* mp3 files under data/audio in sorted() order: one stem in two directories
AudA == [dir |-> "a", stem |-> "t"]
AudB == [dir |-> "b", stem |-> "t"]
AudioOrder == <<AudA, AudB>>

\* audio_ingest.py lines 22-24
_transcript_path(audio_path) == <<"TRANSCRIPTS_DIR", audio_path.stem>>

\* Texts of the transcription model
TranscriptTexts == {<<>>, <<"c">>, <<"c", " ">>}

\* audio_ingest.py lines 27-36
transcribe_audio(reply) == Strip(reply)

\* audio_ingest.py lines 66-72
AudioDocument(rel, text) ==
    [page_content |-> <<"audio", rel, text>>,
     metadata |-> [source |-> rel, type |-> "audio"]]

\* audio_ingest.py lines 39-73: only the first file is read; an existing
\* transcript is reused whatever it holds
load_audio_documents(audio_files, saved, use_cache, reply) ==
    IF audio_files = <<>> THEN [docs |-> <<>>, transcripts |-> saved]
    ELSE LET audio_path == Head(audio_files)
             out_path == _transcript_path(audio_path)
             hit == use_cache /\ out_path \in DOMAIN saved
             text == IF hit THEN Strip(saved[out_path])
                     ELSE transcribe_audio(reply)
         IN  [docs |-> <<AudioDocument(audio_path, text)>>,
              transcripts |->
                  IF hit THEN saved
                  ELSE [q \in DOMAIN saved \cup {out_path} |->
                           IF q = out_path THEN text ELSE saved[q]]]

\* The subsequences of AudioOrder
AudioDirectories ==
    {SelectSeq(AudioOrder, LAMBDA f : f \in present) :
        present \in SUBSET Range(AudioOrder)}

\* One call load_audio_documents(use_cache); the transcripts stay on disk
\* for the next call
LoadAudio ==
    /\ ingDone = FALSE \/ ingLoader = "load_audio_documents"
    /\ \E audio_files \in AudioDirectories, use_cache \in BOOLEAN,
          reply \in TranscriptTexts :
        LET res == load_audio_documents(audio_files, transcripts, use_cache, reply)
        IN  /\ ingDone' = TRUE
            /\ ingLoader' = "load_audio_documents"
            /\ ingFiles' = audio_files
            /\ ingDocs' = res.docs
            /\ ingRaised' = FALSE
            /\ transcripts' = res.transcripts
    /\ UNCHANGED <<ragVars, chunkVars, idVars, storeVars, imageVars, emailVars, fmtVars>>

----------------------------------------------------------------------------
(* vectorstore.py, __main__: the loaded Documents are chunked *)

\* vectorstore.py line 128: text + pdf + image + audio + email
all_docs == ingDocs \o imgDocs \o emlDocs

\* vectorstore.py line 137: chunking.split_documents(all_docs).  The
\* splitter cuts each page_content into windows of its own choice.
ChunkLoaded ==
    /\ splitDone = FALSE
    /\ \/ ingDone /\ ~ingRaised
       \/ imgRunDone /\ ~imgRaised
       \/ emlRunDone /\ ~emlRaised
    /\ \E cut \in [1..Len(all_docs) -> SeqUpTo({TxtC}, MaxWindows)] :
        LET docs == [i \in 1..Len(all_docs) |->
                        [page_content |-> cut[i],
                         metadata |-> all_docs[i].metadata]]
        IN  /\ splitDone' = TRUE
            /\ splitDocs' = docs
            /\ splitChunks' = split_documents(docs)
    /\ UNCHANGED <<ragVars, idVars, storeVars, imageVars, emailVars, ingestVars, fmtVars>>

----------------------------------------------------------------------------
(* Initial state and specifications *)

InitRag ==
    /\ ragDone = FALSE
    /\ retrieved = <<>>
    /\ llmReply = NoReply
    /\ llmCalls = 0
    /\ answer = <<>>
    /\ sources = <<>>
    /\ searchCalls = 0
    /\ ragFault = "none"
    /\ ragRaised = FALSE

InitChunk ==
    /\ splitDone = FALSE
    /\ splitDocs = <<>>
    /\ splitChunks = <<>>

InitIds ==
    /\ idsDone = FALSE
    /\ idChunks = <<>>
    /\ idIds = <<>>

InitStore ==
    /\ collection = <<>>
    /\ buildCalled = FALSE
    /\ lastLen = 0
    /\ lastDistinct = TRUE
    /\ lastReset = FALSE
    /\ deleteFailed = FALSE
    /\ countFailed = FALSE
    /\ enteredEmpty = TRUE
    /\ openedEmpty = TRUE
    /\ inserted = FALSE
    /\ reinserted = FALSE
    /\ storedAll = TRUE
    /\ changed = FALSE
    /\ holdsChunks = TRUE
    /\ rerunStable = TRUE
    /\ rerunStableAnyFault = TRUE
    /\ addCalls = 0
    /\ addFailed = FALSE
    /\ buildRaised = FALSE

\* data/images and outputs/image_text as config.py creates them: empty
InitImages ==
    /\ imgMtime = [f \in ImageFiles |-> 0]
    /\ imgCache = <<>>
    /\ imgRunDone = FALSE
    /\ imgUseCache = TRUE
    /\ imgCacheBefore = <<>>
    /\ imgComputed = {}
    /\ imgDocs = <<>>
    /\ imgRaised = FALSE

InitEmails ==
    /\ emlMtime = [f \in EmlFiles |-> 0]
    /\ emlCache = <<>>
    /\ emlRunDone = FALSE
    /\ emlUseCache = TRUE
    /\ emlCacheBefore = <<>>
    /\ emlComputed = {}
    /\ emlDocs = <<>>
    /\ emlRaised = FALSE

InitIngest ==
    /\ ingDone = FALSE
    /\ ingLoader = ""
    /\ ingFiles = <<>>
    /\ ingDocs = <<>>
    /\ ingRaised = FALSE
    /\ transcripts = <<>>

InitFormat ==
    /\ fmtDone = FALSE
    /\ fmtDocs = <<>>
    /\ fmtBlocks = <<>>

Init ==
    /\ InitRag /\ InitChunk /\ InitIds /\ InitStore
    /\ InitImages /\ InitEmails /\ InitIngest /\ InitFormat

NextRag == AnswerQuestion

SpecRag == Init /\ [][NextRag]_vars

NextFormat == FormatSources

SpecFormat == Init /\ [][NextFormat]_vars

NextChunk == SplitDocuments

SpecChunk == Init /\ [][NextChunk]_vars

NextIds == MakeChunkIds

SpecIds == Init /\ [][NextIds]_vars

NextStore == Build

SpecStore == Init /\ [][NextStore]_vars

NextCache == TouchEml \/ LoadEmails \/ TouchImage \/ LoadImages

SpecCache == Init /\ [][NextCache]_vars

\* The two loaders share no file and no variable, so a behaviour follows
\* the cache of one of them while the other is left as it starts
NextFailOpen ==
    \/ InitEmails /\ TouchImage
    \/ InitEmails /\ WriteImageRecord
    \/ InitEmails /\ LoadImages
    \/ InitImages /\ TouchEml
    \/ InitImages /\ WriteEmlRecord
    \/ InitImages /\ LoadEmails

SpecFailOpen == Init /\ [][NextFailOpen]_vars

\* Requests and builds whose external calls may raise.  A request reads
\* nothing a build of the model writes, so a behaviour follows one of them.
NextFailures ==
    \/ InitStore /\ AnswerQuestion
    \/ InitRag /\ Build

SpecFailures == Init /\ [][NextFailures]_vars

\* The loaders that read artifacts which may be damaged, each over its own
\* directory
NextAdapters ==
    \/ InitImages /\ InitEmails /\ LoadPdfs
    \/ InitIngest /\ InitEmails /\ TouchImage
    \/ InitIngest /\ InitEmails /\ LoadImages
    \/ InitIngest /\ InitImages /\ TouchEml
    \/ InitIngest /\ InitImages /\ LoadEmails

SpecAdapters == Init /\ [][NextAdapters]_vars

\* Each loader over its own directory, then the chunking of what it
\* returned
NextLoaders ==
    \/ InitChunk /\ InitImages /\ InitEmails /\ IngestAllTextOnly
    \/ InitChunk /\ InitImages /\ InitEmails /\ LoadPdfs
    \/ InitChunk /\ InitImages /\ InitEmails /\ LoadAudio
    \/ InitChunk /\ InitIngest /\ InitEmails /\ TouchImage
    \/ InitChunk /\ InitIngest /\ InitEmails /\ LoadImages
    \/ InitChunk /\ InitIngest /\ InitImages /\ TouchEml
    \/ InitChunk /\ InitIngest /\ InitImages /\ LoadEmails
    \/ ChunkLoaded

SpecLoaders == Init /\ [][NextLoaders]_vars

----------------------------------------------------------------------------
(* Citations *)

Digits == {"0", "1", "2", "3", "4", "5", "6", "7", "8", "9"}

DigitValue(c) ==
    CASE c = "0" -> 0 [] c = "1" -> 1 [] c = "2" -> 2 [] c = "3" -> 3
      [] c = "4" -> 4 [] c = "5" -> 5 [] c = "6" -> 6 [] c = "7" -> 7
      [] c = "8" -> 8 [] c = "9" -> 9

\* Value of a non-empty run of decimal digits
RECURSIVE Decimal(_)
Decimal(t) ==
    IF t = <<>> THEN 0
    ELSE 10 * Decimal(SubSeq(t, 1, Len(t) - 1)) + DigitValue(t[Len(t)])

\* text[i..j] is "[" digits "]"
IsNumericCitationAt(text, i, j) ==
    /\ i + 1 < j
    /\ text[i] = "["
    /\ text[j] = "]"
    /\ \A m \in (i + 1)..(j - 1) : text[m] \in Digits

\* The text carries a citation [n] with 1 <= n <= blocks
CitesEvidenceBlock(text, blocks) ==
    \E i, j \in 1..Len(text) :
        /\ IsNumericCitationAt(text, i, j)
        /\ Decimal(SubSeq(text, i + 1, j - 1)) \in 1..blocks

\* The text carries a bracket pair: an opening bracket with a closing
\* bracket somewhere after it
HasBracketPair(text) ==
    \E i, j \in 1..Len(text) : i < j /\ text[i] = "[" /\ text[j] = "]"

\* C1: every returned answer is the refusal text or carries a citation [n]
\* whose n numbers one of the evidence blocks of the request.
C1_TwoOutcomes ==
    ragDone =>
        \/ answer = REFUSAL
        \/ CitesEvidenceBlock(answer, Len(retrieved))

\* C2: when retrieval returned at least one chunk and the generated text
\* has no bracket citation, the answer is the refusal text and the sources
\* are the retrieved chunks.
C2_CitationEnforcement ==
    (ragDone /\ Len(retrieved) >= 1
        /\ ~HasBracketPair(ContentOrEmpty(llmReply)))
    => (answer = REFUSAL /\ sources = retrieved)

\* C3: when retrieval returns no chunk the answer is the refusal text, the
\* source list is empty and the generative model was not invoked.
C3_RefusalContract ==
    (ragDone /\ retrieved = <<>>)
    => (answer = REFUSAL /\ sources = <<>> /\ llmCalls = 0)

C3_Witness == ragDone /\ retrieved = <<>> /\ answer = REFUSAL

\* The text ends with the truncation mark
EndsWithEllipsis(text) == text # <<>> /\ text[Len(text)] = Ellipsis

\* t is the text p followed by the truncation mark
IsCutOf(t, p) == t = p \o <<Ellipsis>>

\* One block per chunk, numbered from 1 in the order of the chunks, each
\* with the source of its chunk
BlocksNumbered ==
    /\ Len(fmtBlocks) = Len(fmtDocs)
    /\ \A i \in 1..Len(fmtBlocks) :
        /\ fmtBlocks[i].number = i
        /\ fmtBlocks[i].source = Get(fmtDocs[i].metadata, "source", UNKNOWN)

\* The excerpt of a block is the stripped content when that is within the
\* cap, and otherwise a prefix of it of at most the cap, then the mark
ExcerptsCapped ==
    \A i \in 1..Len(fmtBlocks) :
        LET content == Strip(fmtDocs[i].page_content)
            excerpt == fmtBlocks[i].content
        IN  IF Len(content) <= max_chars_each
            THEN excerpt = content
            ELSE \E n \in 0..max_chars_each :
                    IsCutOf(excerpt, SubSeq(content, 1, n))

\* C16 as stated: the excerpt ends with the truncation mark exactly when
\* the stripped content is longer than the cap.
C16_MarkIffLonger ==
    fmtDone =>
        /\ BlocksNumbered
        /\ ExcerptsCapped
        /\ \A i \in 1..Len(fmtBlocks) :
            EndsWithEllipsis(fmtBlocks[i].content)
                <=> Len(Strip(fmtDocs[i].page_content)) > max_chars_each

\* C16: one block per chunk, numbered 1..n in retrieval order; the excerpt
\* is the stripped content unchanged when that is at most 900 characters
\* long, and otherwise a prefix of at most 900 characters followed by the
\* truncation mark; the excerpt ends with the mark exactly when the
\* stripped content is longer than the cap or ends with the mark itself.
C16_EvidenceBlocks ==
    fmtDone =>
        /\ BlocksNumbered
        /\ ExcerptsCapped
        /\ \A i \in 1..Len(fmtBlocks) :
            EndsWithEllipsis(fmtBlocks[i].content)
                <=> \/ Len(Strip(fmtDocs[i].page_content)) > max_chars_each
                    \/ EndsWithEllipsis(Strip(fmtDocs[i].page_content))

\* Two chunks: one whose content is within the cap only once it is
\* stripped, one that is cut to less than the cap because the cut ends in
\* a blank
C16_Witness ==
    /\ fmtDone
    /\ \E i, j \in 1..Len(fmtBlocks) :
        /\ i < j
        /\ Len(fmtDocs[i].page_content) > max_chars_each
        /\ fmtBlocks[i].content = Strip(fmtDocs[i].page_content)
        /\ Len(fmtBlocks[i].content) = max_chars_each
        /\ Len(Strip(fmtDocs[j].page_content)) > max_chars_each
        /\ Len(fmtBlocks[j].content) = max_chars_each

----------------------------------------------------------------------------
(* The index store *)

\* C4 as stated: a build with reset=false on a collection that holds a
\* record returns the collection unchanged.
C4_SkipWhenNonEmpty ==
    (buildCalled /\ ~lastReset /\ ~enteredEmpty) => ~changed

\* C4: a build with reset=false on a collection that holds a record, whose
\* count probe does not raise, returns the collection unchanged, whatever
\* chunks are supplied.
C4_SkipWhenCounted ==
    (buildCalled /\ ~lastReset /\ ~enteredEmpty /\ ~countFailed) => ~changed

C4_Witness ==
    /\ buildCalled /\ ~lastReset /\ ~enteredEmpty /\ ~countFailed
    /\ lastLen > 0
    /\ ~holdsChunks
    /\ ~changed

\* C5: a build with reset=true finds the collection empty right before it
\* inserts and returns a collection that holds exactly the supplied chunks,
\* one record per chunk under pairwise distinct ids, when no two chunks
\* share their triple.
C5_ResetRebuild ==
    (buildCalled /\ lastReset /\ lastDistinct)
    => /\ inserted => openedEmpty
       /\ holdsChunks
       /\ Cardinality(DOMAIN collection) = lastLen

\* No two records of the collection share (source, chunk_index, content)
NoDuplicateTriples ==
    \A x, y \in DOMAIN collection :
        x # y => Triple(collection[x]) # Triple(collection[y])

C7_WithinCall ==
    \A i, j \in 1..Len(idChunks) :
        Triple(idChunks[i]) = Triple(idChunks[j]) => idIds[i] = idIds[j]

\* A chunk of one call and a chunk of the next call with the same triple
\* have the same id
C7_AcrossCalls ==
    \A i \in 1..Len(idChunks), j \in 1..Len(idChunks') :
        Triple(idChunks[i]) = Triple(idChunks'[j]) => idIds[i] = idIds'[j]

\* C7: the id of a chunk depends on its (source, chunk_index, content)
\* only: equal triples get equal ids within a call and from call to call,
\* whatever the type field, the position and the other chunks.
C7_IdFunctionOfTriple == []C7_WithinCall /\ [][C7_AcrossCalls]_vars

\* Two chunks with one triple that differ in type and position, one id
C7_Witness ==
    /\ idsDone
    /\ \E i, j \in 1..Len(idChunks) :
        /\ i # j
        /\ Triple(idChunks[i]) = Triple(idChunks[j])
        /\ idChunks[i].metadata.type # idChunks[j].metadata.type
        /\ idIds[i] = idIds[j]

\* C8: chunks whose triples differ in a component get different ids.
C8_DistinctTriplesDistinctIds ==
    idsDone =>
        \A i, j \in 1..Len(idChunks) :
            Triple(idChunks[i]) # Triple(idChunks[j]) => idIds[i] # idIds[j]

----------------------------------------------------------------------------
(* The chunker *)

\* The chunk_index values of the chunks of one source, in emission order
IndexesOf(chunks, src) ==
    LET mine == SelectSeq(chunks, LAMBDA d : d.metadata.source = src)
    IN  [n \in 1..Len(mine) |-> mine[n].metadata.chunk_index]

\* C9: per source, the chunk_index values in emission order are 1, 2, .., N.
C9_ChunkIndexDense ==
    splitDone =>
        \A src \in {splitChunks[i].metadata.source : i \in 1..Len(splitChunks)} :
            LET idx == IndexesOf(splitChunks, src)
            IN  \A n \in 1..Len(idx) : idx[n] = n

\* Documents of one source with a Document of another source between them,
\* each cut into at least one window, and the numbering carried across
C9_Witness ==
    /\ splitDone
    /\ \E i, j, k \in 1..Len(splitDocs) :
        /\ i < j /\ j < k
        /\ splitDocs[i].metadata.source = splitDocs[k].metadata.source
        /\ splitDocs[j].metadata.source # splitDocs[i].metadata.source
        /\ Len(splitDocs[i].page_content) > 1
        /\ Len(splitDocs[j].page_content) > 0
        /\ Len(splitDocs[k].page_content) > 0
    /\ \E m \in 1..Len(splitChunks) : splitChunks[m].metadata.chunk_index > 2

\* C14: when the count probe raises, _safe_collection_count answers 0, and
\* a build with a non-empty chunk list inserts: add_documents is called and
\* every id computed for the chunks is stored, with reset or without.
C14_CountProbeFailureInserts ==
    /\ _safe_collection_count(collection, TRUE) = 0
    /\ (buildCalled /\ countFailed /\ lastLen > 0) => (inserted /\ storedAll)

\* The probe raised on a collection that held records, without reset, and
\* the build inserted its chunks over them
C14_Witness ==
    /\ buildCalled /\ countFailed /\ lastLen > 0
    /\ ~lastReset /\ ~enteredEmpty
    /\ inserted /\ storedAll /\ changed

----------------------------------------------------------------------------
(* The derived-text caches *)

\* The record a loader finds for a file is missing or carries another
\* modification time than the file
Stale(cache, cache_path, mtime) ==
    \/ cache_path \notin DOMAIN cache
    \/ cache[cache_path].mtime # mtime

\* The payload of the Documents returned for a file
PayloadsFor(docs, f) ==
    {docs[i].page_content :
        i \in {n \in 1..Len(docs) : docs[n].metadata.source = f}}

\* The rule of C10 for the last load_images(use_cache=True) run
ImageCacheRule ==
    (imgRunDone /\ imgUseCache) =>
        \A f \in {g \in ImageFiles : imgMtime[g] # 0} :
            LET cache_path == _cache_path_for(f)
            IN  /\ f \in imgComputed
                    <=> Stale(imgCacheBefore, cache_path, imgMtime[f])
                /\ f \in imgComputed =>
                    /\ cache_path \in DOMAIN imgCache
                    /\ imgCache[cache_path].mtime = imgMtime[f]
                    /\ PayloadsFor(imgDocs, f) = {imgCache[cache_path].payload}
                /\ f \notin imgComputed =>
                    /\ imgCache[cache_path] = imgCacheBefore[cache_path]
                    /\ PayloadsFor(imgDocs, f) = {imgCacheBefore[cache_path].payload}

\* The rule of C10 for the last load_emails(use_cache=True) run.  A file is
\* looked up when its turn comes, so the record it finds is the one the run
\* entered with unless the run has written that record before.
EmailCacheRule ==
    (emlRunDone /\ emlUseCache) =>
        \A f \in {g \in EmlFiles : emlMtime[g] # 0} :
            LET cache_path == EmlCachePath(f)
            IN  /\ (f \in emlComputed
                      \/ \E g \in emlComputed : g # f /\ EmlCachePath(g) = cache_path)
                    <=> Stale(emlCacheBefore, cache_path, emlMtime[f])
                /\ f \in emlComputed =>
                    /\ cache_path \in DOMAIN emlCache
                    /\ PayloadsFor(emlDocs, f)
                         = {_extract_text_from_eml(f, emlMtime[f])}

\* C10: a run computes the derived payload of a file exactly when no record
\* exists for it or the record carries another modification time, and then
\* stores the new time and payload; otherwise it returns the cached payload
\* without computing.  For load_images and for load_emails.
C10_CacheCorrectness == EmailCacheRule /\ ImageCacheRule

\* The record is one the loader itself writes: an object with the
\* modification time and the payload
WellFormed(rec) ==
    IsJsonObject(rec) /\ "mtime" \in DOMAIN rec /\ "payload" \in DOMAIN rec

\* Fail-open for the last load_images(use_cache=True) run: a file whose
\* record was not well formed is computed and its record overwritten
ImageFailOpen ==
    (imgRunDone /\ imgUseCache /\ ~imgRaised) =>
        \A f \in {g \in ImageFiles : imgMtime[g] # 0} :
            LET cache_path == _cache_path_for(f)
            IN  (cache_path \in DOMAIN imgCacheBefore
                    /\ ~WellFormed(imgCacheBefore[cache_path]))
                => /\ f \in imgComputed
                   /\ WellFormed(imgCache[cache_path])
                   /\ imgCache[cache_path].mtime = imgMtime[f]

\* Fail-open for the last load_emails(use_cache=True) run: the run does not
\* raise, and a file whose record was not well formed is computed and its
\* record overwritten
EmailFailOpen ==
    (emlRunDone /\ emlUseCache) =>
        \A f \in {g \in EmlFiles : emlMtime[g] # 0} :
            LET cache_path == EmlCachePath(f)
            IN  (cache_path \in DOMAIN emlCacheBefore
                    /\ ~WellFormed(emlCacheBefore[cache_path]))
                => /\ ~emlRaised
                   /\ \E g \in emlComputed : EmlCachePath(g) = cache_path
                   /\ WellFormed(emlCache[cache_path])

\* C11: whatever a cache record file holds (no JSON, JSON that is no
\* object, an object without the modification time, an object with the
\* matching modification time but without the payload), load_images and
\* load_emails take it as a miss, compute and overwrite the record, and do
\* not raise because of it.
C11_CacheFailOpen == ImageFailOpen /\ EmailFailOpen

\* Two image files of the directory have different record files
ImageKeysUnique ==
    \A f, g \in {h \in ImageFiles : imgMtime[h] # 0} :
        f # g => _cache_path_for(f) # _cache_path_for(g)

\* Two .eml files of the directory have different record files, and a
\* Document returned for a file carries the text extracted from that file
EmlKeysUnique ==
    /\ \A f, g \in {h \in EmlFiles : emlMtime[h] # 0} :
            f # g => EmlCachePath(f) # EmlCachePath(g)
    /\ \A i \in 1..Len(emlDocs) :
            \E m \in 1..MaxMtime :
                emlDocs[i].page_content
                    = _extract_text_from_eml(emlDocs[i].metadata.source, m)

\* C12: two distinct files found by one loader, also files with one stem
\* in different directories, never share a cache record, so a run never
\* returns for a file the payload computed for another.  For the image
\* cache and for the email cache.
C12_CacheKeyUniqueness == ImageKeysUnique /\ EmlKeysUnique

----------------------------------------------------------------------------
(* Failing external calls *)

\* A request whose retrieval or generative call raised has raised and has
\* returned no answer and no sources; a request calls each at most once
RequestFailureFatal ==
    /\ ragFault # "none" =>
            (ragRaised /\ ~ragDone /\ answer = <<>> /\ sources = <<>>)
    /\ searchCalls <= 1
    /\ llmCalls <= 1

\* A build whose add_documents raised has raised; a build calls
\* add_documents at most once
BuildFailureFatal ==
    /\ addFailed => (buildRaised /\ ~buildCalled)
    /\ addCalls <= 1

\* C15: in answer_question an exception of the retrieval or of the
\* generative call leaves the function, no answer is returned and each was
\* called at most once; in build_or_load_chroma an exception of
\* add_documents leaves the function and the call is not repeated.
C15_ExternalFailureFatal == RequestFailureFatal /\ BuildFailureFatal

\* A request whose generative call raised after retrieval had found chunks
C15_Witness ==
    /\ ragRaised /\ ragFault = "llm"
    /\ retrieved # <<>>
    /\ searchCalls = 1 /\ llmCalls = 1
    /\ ~ragDone

----------------------------------------------------------------------------
(* Damaged artifacts and malformed model output *)

\* load_pdfs_text_only returns, with a Document for every page of every
\* file that opens and has enough text
PdfBatchSurvives ==
    (ingDone /\ ingLoader = "load_pdfs_text_only") =>
        /\ ~ingRaised
        /\ \A k \in 1..Len(ingFiles) :
            ingFiles[k].content.readable =>
                \A i \in 1..Len(ingFiles[k].content.pages) :
                    ingFiles[k].content.pages[i] >= MIN_TEXT_CHARS =>
                        \E n \in 1..Len(ingDocs) :
                            /\ ingDocs[n].metadata.source = ingFiles[k].path
                            /\ ingDocs[n].metadata.page = i

\* load_images returns, with a Document for every image file
ImageBatchSurvives ==
    imgRunDone =>
        /\ ~imgRaised
        /\ \A f \in {g \in ImageFiles : imgMtime[g] # 0} :
            \E n \in 1..Len(imgDocs) : imgDocs[n].metadata.source = f

\* load_emails returns, with a Document for every .eml file
EmailBatchSurvives ==
    emlRunDone =>
        /\ ~emlRaised
        /\ \A f \in {g \in EmlFiles : emlMtime[g] # 0} :
            \E n \in 1..Len(emlDocs) : emlDocs[n].metadata.source = f

\* C13: a PDF that cannot be opened, an .eml that cannot be parsed, a vision
\* reply that is no JSON or no JSON object never make the loader raise: the
\* loader returns, with the Documents of all other artifacts of the run.
C13_RecoverableErrorKeepsBatch ==
    PdfBatchSurvives /\ ImageBatchSurvives /\ EmailBatchSurvives

----------------------------------------------------------------------------
(* Document metadata *)

\* The values of the type field
DocTypes == {"text", "html", "pdf", "image", "audio", "email"}

Tagged(d) ==
    /\ {"source", "type"} \subseteq DOMAIN d.metadata
    /\ d.metadata.type \in DocTypes

\* C17: every Document a loader returns and every chunk split_documents
\* returns carries a metadata field source and a metadata field type
\* whose value is one of text, html, pdf, image, audio, email.
C17_SourceAndType ==
    /\ \A i \in 1..Len(all_docs) : Tagged(all_docs[i])
    /\ \A i \in 1..Len(splitChunks) : Tagged(splitChunks[i])

====
